---- MODULE Spec2Model ----
(***************************************************************************)
(* Model of MultiQRCodeScanner (qrscanner_openCVcode.py): the scan loop of *)
(* start_scanning, the per-frame processing of process_frame, the overlay  *)
(* of draw_qr_info and the report writer save_to_excel.                    *)
(*                                                                         *)
(* The camera, the symbol decoder, the display and the file system are the *)
(* environment: what they return (or that they raise) is drawn from small  *)
(* sets in the actions that call them.                                     *)
(***************************************************************************)
EXTENDS Integers, Sequences, FiniteSets, TLC

\* ---------------------------------------------------------------- bounds
MaxFrames == 3      \* frames the camera delivers before the model stops reading
MaxSyms == 2        \* symbols the decoder reports in one frame
MaxObserved == 4    \* symbols the decoder reports over the whole run

\* ---------------------------------------------------------------- inputs
\* Raw payload bytes a decoded object may carry.  "A" and "B" are valid
\* UTF-8 texts; BadBytes stands for a byte string that is not valid UTF-8.
Payloads == {"A", "B"}
BadBytes == "\\xff"
RawData == Payloads \cup {BadBytes}

\* pyzbar's Decoded objects, reduced to the fields process_frame reads.
Symbols == [data : RawData, type : {"QRCODE"}]

RECURSIVE SeqsUpTo(_, _)
SeqsUpTo(S, n) ==
    IF n = 0 THEN {<<>>}
    ELSE LET shorter == SeqsUpTo(S, n - 1)
         IN  shorter \cup {Append(s, x) : s \in {t \in shorter : Len(t) = n - 1}, x \in S}

\* What decode(frame) can return for one frame.
FrameContents == SeqsUpTo(Symbols, MaxSyms)

\* ---------------------------------------------------------------- state
VARIABLES
    pc,              \* position of the single thread of control in start_scanning
    cap,             \* self.cap: "none" | "failed" | "open" | "released"
    captured_codes,  \* self.captured_codes: payload -> count
    qr_data,         \* self.qr_data: the event log
    frame_count,     \* self.frame_count
    decoded_objects, \* local of process_frame: result of decode(frame)
    pos,             \* number of decoded_objects the for loop has consumed
    codes_in_frame,  \* local of process_frame
    overlay,         \* colours drawn by draw_qr_info on the last rendered frame
    excel,           \* the file at self.excel_path
    save_calls,      \* one entry per save_to_excel call: what it printed
    exit_path,       \* how the while loop of start_scanning was left
    frames_read,     \* history: number of frames self.cap.read() has delivered
    observed         \* history: the (frame, symbol) pairs the for loop has consumed

vars == <<pc, cap, captured_codes, qr_data, frame_count, decoded_objects, pos,
          codes_in_frame, overlay, excel, save_calls, exit_path,
          frames_read, observed>>

\* ------------------------------------------------------- pure operations
\* Mutant of utf8_decode: decoding that never fails (errors='replace').
utf8_decode_lenient(b) == [ok |-> TRUE, text |-> b]

\* bytes.decode('utf-8'): the text, or a UnicodeDecodeError.
utf8_decode(b) ==
    IF b \in Payloads THEN [ok |-> TRUE, text |-> b]
    ELSE [ok |-> FALSE, text |-> ""]

\* Mutant of is_duplicate: the membership test always answers no.
is_duplicate_never(codes, data) == FALSE

\* `data in self.captured_codes`
is_duplicate(codes, data) == data \in DOMAIN codes

\* Mutant of update_codes: the count is set to 1 instead of incremented.
update_codes_reset(codes, data) ==
    [k \in DOMAIN codes \cup {data} |-> IF k = data THEN 1 ELSE codes[k]]

\* The if/else that updates self.captured_codes for one decoded payload.
update_codes(codes, data) ==
    IF data \in DOMAIN codes
    THEN [codes EXCEPT ![data] = @ + 1]
    ELSE [k \in DOMAIN codes \cup {data} |-> IF k = data THEN 1 ELSE codes[k]]

\* datetime.now().strftime('%Y-%m-%d %H:%M:%S').  The wall clock is read
\* once per event and never read back; the run is taken to fall within one
\* second, so every reading formats to the same text.
strftime_now == "YYYY-MM-DD HH:MM:SS"

\* Mutant of new_event: scan_count is the number of distinct payloads
\* (len(self.captured_codes)) instead of this payload's count.
new_event_ledger_size(stamp, frameNo, data, type, dup, codes) ==
    [timestamp    |-> stamp,
     frame_number |-> frameNo,
     qr_content   |-> data,
     qr_type      |-> type,
     status       |-> IF dup THEN "duplicate" ELSE "new",
     scan_count   |-> Cardinality(DOMAIN codes)]

\* The dictionary appended to self.qr_data.
new_event(stamp, frameNo, data, type, dup, codes) ==
    [timestamp    |-> stamp,
     frame_number |-> frameNo,
     qr_content   |-> data,
     qr_type      |-> type,
     status       |-> IF dup THEN "duplicate" ELSE "new",
     scan_count   |-> codes[data]]

\* Mutant of next_frame_count: the counter is incremented twice per frame.
next_frame_count_twice(n) == n + 2

\* self.frame_count += 1
next_frame_count(n) == n + 1

\* Mutants of append_event: duplicates are not logged; the event is put in
\* front of the log.
append_event_unique(log, ev) == IF ev.status = "duplicate" THEN log ELSE Append(log, ev)

append_event_front(log, ev) == <<ev>> \o log

\* self.qr_data.append(...)
append_event(log, ev) == Append(log, ev)


\* ---------------------------------------------------------- report writer
\* The keys of the event dictionaries, in insertion order: the columns of
\* the DataFrame.
Columns == <<"timestamp", "frame_number", "qr_content", "qr_type", "status", "scan_count">>

\* enumerate(df['status'], start=2): the worksheet row of the first data row.
EnumStart == 2

\* A worksheet is a sequence of rows, row r of the sheet at index r; a row
\* carries the cell values and, cell by cell, whether the red fill is set.
NoFill(n) == [c \in 1..n |-> FALSE]

\* pd.DataFrame(self.qr_data): an empty list gives a frame with no columns.
DataFrame(log) ==
    [columns |-> IF log = <<>> THEN <<>> ELSE Columns,
     rows    |-> log]

row_values(ev) ==
    <<ev.timestamp, ev.frame_number, ev.qr_content, ev.qr_type, ev.status, ev.scan_count>>

\* df.to_excel(writer, index=False): a header row, then one row per record,
\* nothing at all for a frame without columns.
to_excel(df) ==
    IF Len(df.columns) = 0 THEN <<>>
    ELSE <<[values |-> df.columns, fills |-> NoFill(Len(df.columns))]>>
         \o [i \in 1..Len(df.rows) |->
                [values |-> row_values(df.rows[i]), fills |-> NoFill(Len(df.columns))]]

\* Mutant of fill_rows: enumerate starts at 1, the header's row.
fill_rows_from_one(df) ==
    {i : i \in {j \in 1..Len(df.rows) : df.rows[j].status = "duplicate"}}

\* The worksheet rows the formatting loop fills: position i (from 1) of
\* df['status'] is enumerated as EnumStart + i - 1.
fill_rows(df) ==
    {EnumStart + i - 1 : i \in {j \in 1..Len(df.rows) : df.rows[j].status = "duplicate"}}

\* range(1, len(df.columns) + 1)
fill_cols(df) == 1..Len(df.columns)

\* The formatting loop: worksheet.cell(row=idx, column=col).fill = red_fill.
apply_fill(sheet, df) ==
    [r \in 1..Len(sheet) |->
        IF r \in fill_rows(df)
        THEN [sheet[r] EXCEPT !.fills = [c \in 1..Len(@) |-> c \in fill_cols(df) \/ @[c]]]
        ELSE sheet[r]]

\* Mutant of write_report: the rows are appended under those already in the
\* file instead of replacing them.
write_report_append(file, log, io_ok) ==
    IF ~io_ok THEN file
    ELSE LET sheet == IF log = <<>> THEN to_excel(DataFrame(log))
                      ELSE apply_fill(to_excel(DataFrame(log)), DataFrame(log))
         IN  [written |-> TRUE,
              sheet   |-> IF file.sheet = <<>> \/ sheet = <<>> THEN sheet
                          ELSE file.sheet \o Tail(sheet)]

\* The file after save_to_excel.  io_ok = FALSE: pd.ExcelWriter cannot open
\* the destination and nothing is written.  With an empty log df['status']
\* raises KeyError inside the with block; the writer is still closed on the
\* way out, which saves the (empty) sheet.
write_report(file, log, io_ok) ==
    IF ~io_ok THEN file
    ELSE IF log = <<>> THEN [written |-> TRUE, sheet |-> to_excel(DataFrame(log))]
    ELSE [written |-> TRUE,
          sheet   |-> apply_fill(to_excel(DataFrame(log)), DataFrame(log))]

\* Mutant of save_to_excel_raises: no try/except around the writer.
save_to_excel_uncaught(io_ok) == ~io_ok

\* Whether save_to_excel lets an exception out: its whole body is inside
\* try/except Exception, so it never does.
save_to_excel_raises(io_ok) == FALSE

\* The outcome of one save_to_excel call: whether the writer saved the
\* file, and what was printed: "Excel file updated with n total records"
\* (ok) or "Error saving to Excel: ..." (not ok).
save_message(at, log, io_ok) ==
    [at |-> at, saved |-> io_ok, ok |-> io_ok /\ log # <<>>, records |-> Len(log)]

\* Mutant of release_cap: the capture is never released.
release_cap_never(c) == c

\* if self.cap is not None: self.cap.release()
release_cap(c) == IF c # "none" THEN "released" ELSE c

\* Mutants of save_due: a save on every frame; a save only when the frame
\* brought a payload not seen before; a save only from the second code on.
save_due_always(n) == TRUE

save_due_only_new(n) ==
    \E i \in (Len(qr_data) - n + 1)..Len(qr_data) : qr_data[i].status = "new"

save_due_second_code(n) == n > 1

\* `if codes_in_frame > 0:` before self.save_to_excel() in process_frame.
save_due(n) == n > 0

\* Mutant of pc_after_open: no isOpened check, the loop starts regardless.
pc_after_open_unchecked(outcome) == "read"

\* Where start_scanning goes after initialize_camera: into the while loop,
\* or, on an exception, through the except into the finally block.
pc_after_open(outcome) == IF outcome = "opened" THEN "read" ELSE "finally"

\* Mutant of pc_after_show: the key check does not break the loop.
pc_after_show_no_break(outcome) == IF outcome = "raised" THEN "finally" ELSE "read"

\* Where the loop goes after imshow and waitKey: `break` on 'q', the except
\* on an exception of imshow, else the next iteration.
pc_after_show(outcome) == IF outcome = "other" THEN "read" ELSE "finally"

\* ---------------------------------------------------------------- overlay
\* draw_qr_info: the colour of each symbol's boundary; a symbol whose bytes
\* do not decode is skipped by the bare except.
draw_colour(codes, obj) ==
    LET d == utf8_decode(obj.data)
    IN  IF ~d.ok THEN "none"
        ELSE IF d.text \in DOMAIN codes THEN "red" ELSE "green"

draw_qr_info(codes, objs) == [i \in 1..Len(objs) |-> draw_colour(codes, objs[i])]

\* ------------------------------------------------------------------- Init
Init ==
    /\ pc = "idle"
    /\ cap = "none"
    /\ captured_codes = <<>>
    /\ qr_data = <<>>
    /\ frame_count = 0
    /\ decoded_objects = <<>>
    /\ pos = 0
    /\ codes_in_frame = 0
    /\ overlay = <<>>
    /\ excel = [written |-> FALSE, sheet |-> <<>>]
    /\ save_calls = <<>>
    /\ exit_path = "none"
    /\ frames_read = 0
    /\ observed = <<>>

\* ---------------------------------------------------------------- actions
\* initialize_camera, called first in start_scanning.  The constructor of
\* VideoCapture may raise (cap stays None), the capture may fail to open
\* (initialize_camera raises), or it opens.
InitializeCamera ==
    /\ pc = "idle"
    /\ \E outcome \in {"raised", "not_opened", "opened"} :
          /\ cap' = CASE outcome = "raised" -> "none"
                      [] outcome = "not_opened" -> "failed"
                      [] OTHER -> "open"
          /\ pc' = pc_after_open(outcome)
          /\ exit_path' = IF outcome = "opened" THEN exit_path ELSE "open_failed"
    /\ UNCHANGED <<captured_codes, qr_data, frame_count, decoded_objects, pos,
                   codes_in_frame, overlay, excel, save_calls, frames_read, observed>>

\* ret, frame = self.cap.read(); if not ret: break.
ReadFrame ==
    /\ pc = "read"
    /\ \E ret \in BOOLEAN :
          /\ ret => frames_read < MaxFrames
          /\ frames_read' = IF ret THEN frames_read + 1 ELSE frames_read
          /\ pc' = IF ret THEN "decode" ELSE "finally"
          /\ exit_path' = IF ret THEN exit_path ELSE "read_failed"
    /\ UNCHANGED <<cap, captured_codes, qr_data, frame_count, decoded_objects, pos,
                   codes_in_frame, overlay, excel, save_calls, observed>>

\* process_frame, up to the for loop: the counter is incremented, then the
\* decoder is called; an exception of the decoder is not caught in
\* process_frame and reaches the except of start_scanning.
ProcessFrameBegin ==
    /\ pc = "decode"
    /\ frame_count' = next_frame_count(frame_count)
    /\ \/ \E objs \in FrameContents :
            /\ Len(observed) + Len(objs) <= MaxObserved
            /\ decoded_objects' = objs
            /\ pos' = 0
            /\ codes_in_frame' = 0
            /\ pc' = "symbols"
            /\ UNCHANGED exit_path
       \/ /\ pc' = "finally"
          /\ exit_path' = "exception"
          /\ UNCHANGED <<decoded_objects, pos, codes_in_frame>>
    /\ UNCHANGED <<cap, captured_codes, qr_data, overlay, excel, save_calls, frames_read, observed>>

\* One iteration of `for obj in decoded_objects`.
ProcessSymbol ==
    /\ pc = "symbols"
    /\ pos < Len(decoded_objects)
    /\ LET obj == decoded_objects[pos + 1]
           d   == utf8_decode(obj.data)
           dup == is_duplicate(captured_codes, d.text)
           codes == update_codes(captured_codes, d.text)
       IN  /\ IF d.ok
              THEN /\ codes_in_frame' = codes_in_frame + 1
                   /\ captured_codes' = codes
                   /\ qr_data' = append_event(qr_data,
                          new_event(strftime_now, frame_count, d.text, obj.type, dup, codes))
              ELSE UNCHANGED <<codes_in_frame, captured_codes, qr_data>>
           /\ observed' = Append(observed, [frame |-> frames_read, obj |-> obj])
    /\ pos' = pos + 1
    /\ UNCHANGED <<pc, cap, frame_count, decoded_objects, overlay, excel, save_calls,
                   exit_path, frames_read>>

\* process_frame after the for loop: draw the overlay, then save if a code
\* was decoded in this frame.  An exception of the drawing calls leaves
\* process_frame before the save.
ProcessFrameEnd ==
    /\ pc = "symbols"
    /\ pos = Len(decoded_objects)
    /\ \/ /\ overlay' = draw_qr_info(captured_codes, decoded_objects)
          /\ IF save_due(codes_in_frame)
             THEN \E io_ok \in BOOLEAN :
                     /\ excel' = write_report(excel, qr_data, io_ok)
                     /\ save_calls' = Append(save_calls, save_message("frame", qr_data, io_ok))
                     /\ pc' = IF save_to_excel_raises(io_ok) THEN "finally" ELSE "show"
                     /\ exit_path' = IF save_to_excel_raises(io_ok) THEN "exception"
                                     ELSE exit_path
             ELSE /\ pc' = "show"
                  /\ UNCHANGED <<excel, save_calls, exit_path>>
       \/ /\ pc' = "finally"
          /\ exit_path' = "exception"
          /\ UNCHANGED <<overlay, excel, save_calls>>
    /\ UNCHANGED <<cap, captured_codes, qr_data, frame_count, decoded_objects, pos,
                   codes_in_frame, frames_read, observed>>

\* cv2.imshow, then the key check that ends the iteration.
ShowFrame ==
    /\ pc = "show"
    /\ \E outcome \in {"raised", "q", "other"} :
          /\ pc' = pc_after_show(outcome)
          /\ exit_path' = CASE outcome = "raised" -> "exception"
                            [] outcome = "q" -> "stop_signal"
                            [] OTHER -> exit_path
    /\ UNCHANGED <<cap, captured_codes, qr_data, frame_count, decoded_objects, pos,
                   codes_in_frame, overlay, excel, save_calls, frames_read, observed>>

\* The finally block: release the capture if there is one, then the final
\* save.
Finally ==
    /\ pc = "finally"
    /\ cap' = release_cap(cap)
    /\ \E io_ok \in BOOLEAN :
          /\ excel' = write_report(excel, qr_data, io_ok)
          /\ save_calls' = Append(save_calls, save_message("final", qr_data, io_ok))
    /\ pc' = "done"
    /\ UNCHANGED <<captured_codes, qr_data, frame_count, decoded_objects, pos,
                   codes_in_frame, overlay, exit_path, frames_read, observed>>

Next ==
    \/ InitializeCamera
    \/ ReadFrame
    \/ ProcessFrameBegin
    \/ ProcessSymbol
    \/ ProcessFrameEnd
    \/ ShowFrame
    \/ Finally

Spec == Init /\ [][Next]_vars

\* The states of the scan loop named by the design.
LoopState ==
    CASE pc = "idle" -> "Idle"
      [] pc \in {"read", "decode", "symbols", "show"} -> "Running"
      [] pc = "finally" -> "Stopping"
      [] OTHER -> "Stopped"

TypeOK ==
    /\ pc \in {"idle", "read", "decode", "symbols", "show", "finally", "done"}
    /\ cap \in {"none", "failed", "open", "released"}
    /\ DOMAIN captured_codes \subseteq Payloads
    /\ frame_count \in 0..MaxFrames
    /\ frames_read \in 0..MaxFrames
    /\ pos \in 0..Len(decoded_objects)
    /\ codes_in_frame \in 0..pos
    /\ exit_path \in {"none", "open_failed", "read_failed", "stop_signal", "exception"}


\* ------------------------------------------------------ claim vocabulary
IsPrefix(a, b) == Len(a) <= Len(b) /\ \A i \in 1..Len(a) : a[i] = b[i]

\* The bytes of an observed symbol are valid text (said of the input, not
\* of what the scanner made of it).
ValidText(o) == o.obj.data # BadBytes

\* The observations whose payload is valid text, in the order they were fed.
DecodableObserved == SelectSeq(observed, ValidText)

FirstSeen(seq, i) == \A j \in 1..(i - 1) : seq[j].obj.data # seq[i].obj.data

EventsWith(log, p) == {i \in 1..Len(log) : log[i].qr_content = p}

LastSave == save_calls[Len(save_calls)]

\* Reading the artifact back: the data rows under the header, each as a
\* record keyed by the header's column names.
read_rows(sheet) ==
    IF Len(sheet) = 0 THEN <<>>
    ELSE LET h == sheet[1].values
             col(name) == CHOOSE c \in 1..Len(h) : h[c] = name
         IN  [i \in 1..(Len(sheet) - 1) |->
                LET v == sheet[i + 1].values
                IN  [timestamp    |-> v[col("timestamp")],
                     frame_number |-> v[col("frame_number")],
                     qr_content   |-> v[col("qr_content")],
                     qr_type      |-> v[col("qr_type")],
                     status       |-> v[col("status")],
                     scan_count   |-> v[col("scan_count")]]]

\* Data row i of the sheet has the red fill on every cell / on no cell.
RowAllRed(sheet, i) == \A c \in 1..Len(sheet[i + 1].fills) : sheet[i + 1].fills[c]
RowNoRed(sheet, i) == \A c \in 1..Len(sheet[i + 1].fills) : ~sheet[i + 1].fills[c]

ReportMatches(file, log) ==
    /\ file.written
    /\ read_rows(file.sheet) = log
    /\ \A i \in 1..Len(log) :
          IF log[i].status = "duplicate" THEN RowAllRed(file.sheet, i)
          ELSE RowNoRed(file.sheet, i)
    /\ Len(file.sheet) > 0 => RowNoRed(file.sheet, 0)

\* ------------------------------------------------------------------ C1
\* C1: the first valid observation of each distinct payload is recorded
\* 'new' and every later observation of it 'duplicate'; at most one event
\* per payload is 'new'; the ledger has one key per distinct payload observed.
C1_FirstNewThenDuplicate ==
    LET D == DecodableObserved
    IN  /\ Len(qr_data) = Len(D)
        /\ \A i \in 1..Len(D) :
              qr_data[i].status = IF FirstSeen(D, i) THEN "new" ELSE "duplicate"
        /\ \A p \in Payloads :
              Cardinality({i \in EventsWith(qr_data, p) : qr_data[i].status = "new"}) <= 1
        /\ Cardinality(DOMAIN captured_codes)
              = Cardinality({D[i].obj.data : i \in 1..Len(D)})

\* A payload seen twice in one frame and again in a later frame, next to a
\* second payload.
C1_Witness ==
    /\ Cardinality(DOMAIN captured_codes) = 2
    /\ \E i, j, k \in 1..Len(qr_data) :
          /\ i < j /\ j < k
          /\ qr_data[i].qr_content = qr_data[j].qr_content
          /\ qr_data[j].qr_content = qr_data[k].qr_content
          /\ qr_data[i].frame_number = qr_data[j].frame_number
          /\ qr_data[j].frame_number < qr_data[k].frame_number

\* ------------------------------------------------------------------ C2
\* C2: the event log has exactly one event per valid observation, in
\* order, carrying that observation's payload and type: none dropped, none
\* recorded twice.
C2_LogCompleteness ==
    LET D == DecodableObserved
    IN  /\ Len(qr_data) = Len(D)
        /\ \A i \in 1..Len(qr_data) :
              /\ qr_data[i].qr_content = D[i].obj.data
              /\ qr_data[i].qr_type = D[i].obj.type

\* A finished run over several frames with an undecodable symbol among
\* repeated valid ones.
C2_Witness ==
    /\ pc = "done"
    /\ frames_read >= 2
    /\ Len(observed) > Len(qr_data)
    /\ \E i, j \in 1..Len(qr_data) : i < j /\ qr_data[i].qr_content = qr_data[j].qr_content

\* ------------------------------------------------------------------ C3
\* C3: every write of the artifact leaves a file whose data rows equal the
\* event log in order and field values, with the red fill on every cell of
\* a row exactly when its status is 'duplicate' (the empty log included).
C3_ReportFidelity == [][excel' # excel => ReportMatches(excel', qr_data')]_vars

\* A written report with a 'new' row before and after a 'duplicate' row.
C3_Witness ==
    /\ excel.written
    /\ Len(excel.sheet) = Len(qr_data) + 1
    /\ \E i, j, k \in 1..Len(qr_data) :
          /\ i < j /\ j < k
          /\ qr_data[i].status = "new" /\ RowNoRed(excel.sheet, i)
          /\ qr_data[j].status = "duplicate" /\ RowAllRed(excel.sheet, j)
          /\ qr_data[k].status = "new" /\ RowNoRed(excel.sheet, k)

\* ------------------------------------------------------------------ C4
\* C4: the frame counter is the number of frames processed (1 for the
\* first, one more for each, whatever the frame decodes to); the events'
\* frame numbers are non-decreasing and each is the index of the frame in
\* which the symbol was observed.
C4_FrameCounter ==
    LET D == DecodableObserved
    IN  /\ frame_count = IF pc = "decode" THEN frames_read - 1 ELSE frames_read
        /\ Len(qr_data) = Len(D)
        /\ \A i \in 1..Len(qr_data) :
              /\ qr_data[i].frame_number = D[i].frame
              /\ qr_data[i].frame_number >= 1
        /\ \A i \in 1..(Len(qr_data) - 1) :
              qr_data[i].frame_number <= qr_data[i + 1].frame_number

\* The first event comes from the third frame: two frames without a decoded
\* symbol (one of them with an undecodable one) were counted before it.
C4_Witness ==
    /\ Len(qr_data) >= 1
    /\ qr_data[1].frame_number = 3
    /\ Len(observed) > Len(qr_data)

\* ------------------------------------------------------------------ C5
\* C5: between symbol-processing steps, the ledger's keys are exactly the
\* payloads of the logged events and each count is the number of events
\* with that payload.
C5_LedgerMatchesLog ==
    /\ DOMAIN captured_codes = {qr_data[i].qr_content : i \in 1..Len(qr_data)}
    /\ \A p \in DOMAIN captured_codes :
          captured_codes[p] = Cardinality(EventsWith(qr_data, p))

\* One payload counted three times, another once, in the middle of a frame.
C5_Witness ==
    /\ pc = "symbols"
    /\ \E p, q \in DOMAIN captured_codes : captured_codes[p] = 3 /\ captured_codes[q] = 1

\* ------------------------------------------------------------------ C6
\* C6: in every step the previous event log is a prefix of the new one.
C6_AppendOnly == [][IsPrefix(qr_data, qr_data')]_vars

\* A finished run with several events, a failed report write and an
\* undecodable symbol behind it.
C6_Witness ==
    /\ pc = "done"
    /\ Len(qr_data) >= 3
    /\ Len(observed) > Len(qr_data)
    /\ \E i \in 1..Len(save_calls) : ~save_calls[i].saved

\* ------------------------------------------------------------------ C7
\* C7: after the frame source reported end-of-stream, the run has made
\* exactly one final report write, made last and from the complete log of
\* the frames processed, and the frame source is released.
C7_EndOfStream ==
    (pc = "done" /\ exit_path = "read_failed") =>
        /\ Cardinality({i \in 1..Len(save_calls) : save_calls[i].at = "final"}) = 1
        /\ LastSave.at = "final"
        /\ LastSave.records = Len(qr_data)
        /\ Len(qr_data) = Len(DecodableObserved)
        /\ frame_count = frames_read
        /\ LastSave.saved => ReportMatches(excel, qr_data)
        /\ cap = "released"

\* End-of-stream after three frames, the last of them without a decoded
\* symbol, and a final write that succeeded.
C7_Witness ==
    /\ pc = "done"
    /\ exit_path = "read_failed"
    /\ frames_read = 3
    /\ Len(qr_data) >= 2
    /\ qr_data[Len(qr_data)].frame_number < 3
    /\ LastSave.saved

\* ------------------------------------------------------------------ C8
\* C8: the step that processes a symbol whose bytes are not valid text
\* appends no event, leaves the ledger alone and goes on to the next symbol
\* without ending the loop.
AtBadSymbol ==
    /\ pc = "symbols"
    /\ pos < Len(decoded_objects)
    /\ decoded_objects[pos + 1].data = BadBytes

C8_BadSymbolSkipped ==
    [][AtBadSymbol =>
          /\ qr_data' = qr_data
          /\ captured_codes' = captured_codes
          /\ codes_in_frame' = codes_in_frame
          /\ pos' = pos + 1
          /\ pc' = "symbols"
          /\ exit_path' = exit_path]_vars

\* An undecodable symbol followed by a logged one in the same frame, and a
\* later frame processed after it.
C8_Witness ==
    /\ \E i \in 1..(Len(observed) - 1) :
          /\ ~ValidText(observed[i])
          /\ ValidText(observed[i + 1])
          /\ observed[i].frame = observed[i + 1].frame
          /\ \E k \in 1..Len(qr_data) : qr_data[k].frame_number = observed[i].frame
          /\ \E k \in 1..Len(qr_data) : qr_data[k].frame_number > observed[i].frame
    /\ exit_path \in {"none", "read_failed", "stop_signal"}

\* ------------------------------------------------------------------ C9
\* C9: a report write that fails at the end of a frame changes neither the
\* log, the ledger, the frame counter nor the artifact and leaves the loop
\* running; a write that succeeds is a full rewrite, so the artifact then
\* holds every event recorded so far.
FrameSaveFailed ==
    /\ Len(save_calls') = Len(save_calls) + 1
    /\ save_calls'[Len(save_calls')].at = "frame"
    /\ ~save_calls'[Len(save_calls')].saved

SaveSucceeded ==
    /\ Len(save_calls') = Len(save_calls) + 1
    /\ save_calls'[Len(save_calls')].saved

C9_FailedWriteNonFatal ==
    [][/\ FrameSaveFailed =>
            /\ qr_data' = qr_data
            /\ captured_codes' = captured_codes
            /\ frame_count' = frame_count
            /\ excel' = excel
            /\ pc' = "show"
            /\ exit_path' = exit_path
       /\ SaveSucceeded => read_rows(excel'.sheet) = qr_data']_vars

\* Two failed writes, then a successful one at the end of a later frame
\* that holds the events of all three frames.
C9_Witness ==
    /\ Len(save_calls) = 3
    /\ ~save_calls[1].saved /\ ~save_calls[2].saved
    /\ save_calls[3].saved /\ save_calls[3].at = "frame"
    /\ save_calls[1].records < save_calls[3].records
    /\ read_rows(excel.sheet) = qr_data
    /\ pc = "show"

\* ----------------------------------------------------------------- C10
\* C10: the scan loop leaves Running only through an acquisition failure
\* or the stop signal, never through the failure of another component.
C10_OnlyAcquisitionOrStopEndsLoop ==
    LoopState \in {"Stopping", "Stopped"} =>
        exit_path \in {"open_failed", "read_failed", "stop_signal"}

\* ----------------------------------------------------------------- C11
\* C11: whatever path start_scanning took to its end (open failure,
\* end-of-stream, stop signal, exception while a frame was processed), the
\* capture it acquired is released and the final report write has been
\* invoked exactly once, as the last write; before the end it has not been
\* invoked at all.
FinalSaves == {i \in 1..Len(save_calls) : save_calls[i].at = "final"}

RankInFrame(i) == Cardinality({j \in 1..i : decoded_objects[j].data # BadBytes})

EventOfSymbol(i) == qr_data[Len(qr_data) - codes_in_frame + RankInFrame(i)]

C12_OverlayMatchesClassification ==
    pc = "show" =>
        \A i \in 1..Len(decoded_objects) :
            decoded_objects[i].data # BadBytes =>
                overlay[i] = IF EventOfSymbol(i).status = "duplicate" THEN "red" ELSE "green"

\* ----------------------------------------------------------------- C13
\* C13: every event's scan_count is the number of events up to and
\* including it that carry its payload; an event is 'new' exactly when its
\* scan_count is 1; so one payload's scan_counts run 1, 2, 3, ... in log
\* order.
OccurrencesUpTo(log, i) == Cardinality({j \in 1..i : log[j].qr_content = log[i].qr_content})

C13_ScanCountRunning ==
    \A i \in 1..Len(qr_data) :
        /\ qr_data[i].scan_count = OccurrencesUpTo(qr_data, i)
        /\ (qr_data[i].status = "new") <=> (qr_data[i].scan_count = 1)

\* One payload logged three times with another payload's first event in
\* between.
C13_Witness ==
    \E i, j \in 1..Len(qr_data) :
        /\ i < j
        /\ qr_data[j].scan_count = 3
        /\ qr_data[i].scan_count = 1
        /\ qr_data[i].qr_content # qr_data[j].qr_content
        /\ \E k \in 1..(i - 1) : qr_data[k].qr_content = qr_data[j].qr_content

\* ----------------------------------------------------------------- C14
\* C14: the rows of the artifact are at every moment a prefix of the event
\* log, and right after every write that saved the file they are the whole
\* event log.
C14_ReportIsPrefixOfLog ==
    [][/\ excel'.written => IsPrefix(read_rows(excel'.sheet), qr_data')
       /\ SaveSucceeded => read_rows(excel'.sheet) = qr_data']_vars

\* The artifact holds the events of an earlier frame while the log has
\* grown past it and a later write has failed.
C14_Witness ==
    /\ excel.written
    /\ Len(read_rows(excel.sheet)) >= 1
    /\ Len(read_rows(excel.sheet)) < Len(qr_data)
    /\ \E i, j \in 1..Len(save_calls) : i < j /\ save_calls[i].saved /\ ~save_calls[j].saved

\* ----------------------------------------------------------------- C15
\* The events of the frame whose for loop has just ended.
FrameEventIdx == (Len(qr_data) - codes_in_frame + 1)..Len(qr_data)

\* A step that ends process_frame normally / that also called the writer.
FrameEnds == pc = "symbols" /\ pc' = "show"
FrameWrites == FrameEnds /\ Len(save_calls') = Len(save_calls) + 1

FrameSaves == {i \in 1..Len(save_calls) : save_calls[i].at = "frame"}

FramesWithValid == {observed[i].frame : i \in {j \in 1..Len(observed) : ValidText(observed[j])}}

FinishedFramesWithValid == {f \in FramesWithValid : pc = "symbols" => f < frames_read}

C16_OneWritePerDecodedFrame ==
    /\ LoopState = "Running" =>
          Cardinality(FrameSaves) = Cardinality(FinishedFramesWithValid)
    /\ \A i \in FrameSaves :
          LET r == save_calls[i].records
          IN  /\ r \in 1..Len(qr_data)
              /\ qr_data[r].frame_number \in FinishedFramesWithValid
              /\ r < Len(qr_data) => qr_data[r].frame_number < qr_data[r + 1].frame_number
              /\ \A j \in FrameSaves :
                    j < i => qr_data[save_calls[j].records].frame_number
                                < qr_data[r].frame_number

\* Three frames shown: two with valid symbols and a write each, one with
\* nothing but an undecodable symbol and no write.
C16_Witness ==
    /\ pc = "show"
    /\ frames_read = 3
    /\ Cardinality(FrameSaves) = 2
    /\ Cardinality(FramesWithValid) = 2
    /\ \E i \in 1..Len(observed) :
          ~ValidText(observed[i]) /\ observed[i].frame \notin FramesWithValid

\* ----------------------------------------------------------------- C17
\* What C17 says besides the list of transitions: once an acquisition
\* failure or the stop signal has been observed the loop is not running;
\* from Stopping on, no frame is read or processed and the ledger, the log
\* and the frame counter do not change; Stopped is terminal; and when the
\* stop signal ends the loop, every frame that was read has been counted,
\* classified symbol by symbol and logged.
StoppedForGood ==
    /\ exit_path' \in {"open_failed", "read_failed", "stop_signal"} =>
          LoopState' \in {"Stopping", "Stopped"}
    /\ LoopState \in {"Stopping", "Stopped"} =>
          UNCHANGED <<captured_codes, qr_data, frame_count, frames_read, observed,
                      decoded_objects, pos>>
    /\ LoopState = "Stopped" => UNCHANGED vars
    /\ exit_path' = "stop_signal" =>
          /\ frame_count' = frames_read'
          /\ pos' = Len(decoded_objects')
          /\ Len(qr_data') = Len(SelectSeq(observed', ValidText))

LoopStep == <<LoopState, LoopState'>>

\* C17 (as claimed): the only transitions are Idle -> Running,
\* Running -> Stopping and Stopping -> Stopped.
C17_StrictStateOrder ==
    [][/\ LoopState' # LoopState =>
             LoopStep \in {<<"Idle", "Running">>, <<"Running", "Stopping">>,
                           <<"Stopping", "Stopped">>}
       /\ StoppedForGood]_vars

\* C17 (amended): as claimed, with one more transition: Idle -> Stopping,
\* taken when the frame source cannot be opened.
C17_StateOrder ==
    [][/\ LoopState' # LoopState =>
             \/ LoopStep \in {<<"Idle", "Running">>, <<"Running", "Stopping">>,
                              <<"Stopping", "Stopped">>}
             \/ LoopStep = <<"Idle", "Stopping">> /\ exit_path' = "open_failed"
       /\ StoppedForGood]_vars

\* A run stopped by the key after its second frame, with both frames'
\* symbols logged, now terminated.
C17_Witness ==
    /\ pc = "done"
    /\ exit_path = "stop_signal"
    /\ frames_read = 2
    /\ Len(qr_data) >= 2
    /\ qr_data[Len(qr_data)].frame_number = 2

\* ----------------------------------------------------------------- C18
\* C18: when the frame source could not be opened the loop is never
\* Running: no frame is read, the frame counter is 0, the ledger and the
\* event log are empty, and the run ends with the cleanup done and the final
\* report write invoked.
C18_OpenFailure ==
    exit_path = "open_failed" =>
        /\ LoopState \in {"Stopping", "Stopped"}
        /\ frames_read = 0
        /\ frame_count = 0
        /\ DOMAIN captured_codes = {}
        /\ qr_data = <<>>
        /\ observed = <<>>
        /\ pc = "done" =>
              /\ cap # "open" /\ cap # "failed"
              /\ Len(save_calls) = 1
              /\ LastSave.at = "final"

\* The capture was created but did not open; the run is over, the capture
\* released and the final write has saved an empty report.
C18_Witness ==
    /\ pc = "done"
    /\ exit_path = "open_failed"
    /\ cap = "released"
    /\ Len(save_calls) = 1
    /\ LastSave.saved
    /\ excel.written

\* ----------------------------------------------------------------- C19
\* The single thread of start_scanning keeps running: every call it makes
\* returns or raises, so whenever a step is possible one is taken.
FairSpec == Spec /\ WF_vars(Next)

\* C19: under that fairness, once a read has failed or the stop signal has
\* been observed, the run reaches Stopped with the frame source released
\* and the final report write done.
C19_Terminates ==
    (exit_path \in {"read_failed", "stop_signal"})
        ~> (pc = "done" /\ cap = "released" /\ FinalSaves # {})

\* A run that ended on a failed read after one frame, released and saved.
C19_Witness ==
    /\ pc = "done"
    /\ exit_path = "read_failed"
    /\ frames_read = 1
    /\ cap = "released"
    /\ FinalSaves # {}

\* ----------------------------------------------------------------- C20
\* C20: processing a frame in which no symbol decodes (no symbols, or only
\* undecodable ones) increments the frame counter and leaves the ledger,
\* the event log and the artifact as they were, without a writer call.
NoValidInFrame ==
    \A i \in 1..Len(decoded_objects) : decoded_objects[i].data = BadBytes

C20_EmptyFrameChangesNothing ==
    [][/\ pc = "decode" =>
             /\ frame_count' = frame_count + 1
             /\ UNCHANGED <<captured_codes, qr_data, excel, save_calls>>
       /\ (pc = "symbols" /\ NoValidInFrame) =>
             UNCHANGED <<captured_codes, qr_data, excel, save_calls, frame_count>>]_vars

\* A frame of undecodable symbols only has been processed after a frame
\* whose events are in the log and in the artifact.
C20_Witness ==
    /\ pc = "show"
    /\ frame_count = 2
    /\ Len(decoded_objects) = 2
    /\ NoValidInFrame
    /\ codes_in_frame = 0
    /\ Len(qr_data) >= 1
    /\ excel.written
    /\ read_rows(excel.sheet) = qr_data
    /\ Len(save_calls) = 1

====
